---- MODULE Spec2Model ----
(***************************************************************************)
(* Model of raw_downloader.py: one run of main() for one command line.     *)
(* A chapter URL is modelled by its publication number (1 = oldest), a     *)
(* page-image source by its position in the rendered page, a scratch file  *)
(* by the source it was fetched from (fetch_image draws a fresh name for   *)
(* every file).  What the network, the browser and the image decoder       *)
(* answer is chosen nondeterministically.                                  *)
(***************************************************************************)
EXTENDS Integers, Sequences, FiniteSets

\* Bounds of the model.
MaxChapters == 5
MaxSkip == 6
MaxSrc == 7

VARIABLES
  pc,              \* position of the run
  rpc,             \* where the running _get_content returns to
  arg_url,         \* args.url, by its prefix
  arg_skip,        \* args.skip
  chromedriver,    \* os.path.isfile(self.chromedriver_path)
  out_dir,         \* out_dir exists
  raw,             \* the downloader class main() instantiated
  sessions,        \* open browser sessions
  renders,         \* calls of _get_content so far
  soup,            \* the markup being parsed
  all_story_urls,  \* download(): all_story_urls
  urls,            \* download(): what is left of the iterator urls
  url,             \* the chapter _fetch_content_create_pdf is working on
  processed,       \* chapters handed to _fetch_content_create_pdf, in order
  sources,         \* jpgs_href as _find_jpg_source returned it
  jpgs_href,       \* jpgs_href after _cut
  tempdir,         \* the directory of tempfile.mkdtemp() exists
  files,           \* files in tempdir
  resp,            \* resp.status_code of each link, by position
  jpg_filepaths,   \* what download_images returned
  decodable,       \* the files Image.open accepts
  images,          \* images_to_pdf(): images
  pdf_filename,    \* pdf_filename; 0 while unbound
  pdf,             \* pages of the document images_to_pdf saved
  docs,            \* documents in out_dir, by name
  err              \* the exception in flight or that ended the run

vars ==
  <<pc, rpc, arg_url, arg_skip, chromedriver, out_dir, raw, sessions, renders,
    soup, all_story_urls, urls, url, processed, sources, jpgs_href, tempdir,
    files, resp, jpg_filepaths, decodable, images, pdf_filename, pdf, docs, err>>

args == <<arg_url, arg_skip, chromedriver>>
chapterLocals ==
  <<sources, jpgs_href, tempdir, files, resp, jpg_filepaths, decodable, images,
    pdf_filename, pdf>>

NoError == ""
Unbound == 0
NoMarkup ==
  [select |-> FALSE, options |-> 0, modal |-> FALSE, anchors |-> 0,
   imgs |-> 0, bad |-> FALSE]

----------------------------------------------------------------------------
\* Python's list operations

\* an index of a slice, as Python clamps it to 0..n
SliceIndex(i, n) ==
  IF i < 0 THEN (IF i + n < 0 THEN 0 ELSE i + n) ELSE (IF i > n THEN n ELSE i)

\* s[start:stop]
Slice(s, start, stop) ==
  LET lo == SliceIndex(start, Len(s))
      hi == SliceIndex(stop, Len(s))
  IN  [i \in 1..(IF hi > lo THEN hi - lo ELSE 0) |-> s[lo + i]]

\* s[:stop]
SliceTo(s, stop) == Slice(s, 0, stop)

\* s[start:]
SliceFrom(s, start) == Slice(s, start, Len(s))

\* reversed(s)
reversed(s) == [i \in 1..Len(s) |-> s[Len(s) + 1 - i]]

\* the values N, N-1, ..., 1: a navigation list of N entries, newest first
Listing(n) == [i \in 1..n |-> n + 1 - i]

Range(s) == {s[i] : i \in 1..Len(s)}

----------------------------------------------------------------------------
\* The site variants

Dispatch(prefix) ==
  IF prefix = "https://mangakoma.org/" THEN "MangakomaOrgDownloader"
  ELSE IF prefix = "https://mangakoma01.net/" THEN "Mangakoma01NetDownloader"
  ELSE IF prefix = "https://mangakoma.onl/manga/" THEN "MangakomaOnlDownloader"
  ELSE "None"

Mangakoma01Net_cut(pages) == Slice(pages, 1, -1)

\* the subclass forgets its override and inherits pages[1:-1]
MangakomaOrg_cut_inherited(pages) == Slice(pages, 1, -1)

MangakomaOrg_cut(pages) == SliceFrom(pages, 1)

\* the subclass forgets its override and inherits pages[1:]
MangakomaOnl_cut_inherited(pages) == SliceFrom(pages, 1)

MangakomaOnl_cut(pages) == pages

_cut(cls, pages) ==
  IF cls = "Mangakoma01NetDownloader" THEN Mangakoma01Net_cut(pages)
  ELSE IF cls = "MangakomaOrgDownloader" THEN MangakomaOrg_cut(pages)
  ELSE MangakomaOnl_cut(pages)

\* soup.find("select", self.selector) is None when the page has no such
\* select, and None.select raises AttributeError
Mangakoma01Net_get_story_urls(markup) ==
  IF ~markup.select
    THEN [err |-> "AttributeError", val |-> <<>>]
    ELSE [err |-> NoError, val |-> Listing(markup.options)]

\* the primary path taken for any non-empty option list (len(options) > 0)
MangakomaOnl_get_story_urls_nonempty(markup) ==
  IF markup.options > 0
    THEN [err |-> NoError, val |-> Listing(markup.options)]
    ELSE IF ~markup.modal
      THEN [err |-> "ValueError", val |-> <<>>]
      ELSE [err |-> NoError, val |-> Listing(markup.anchors)]

MangakomaOnl_get_story_urls(markup) ==
  IF markup.options > 1
    THEN [err |-> NoError, val |-> Listing(markup.options)]
    ELSE IF ~markup.modal
      THEN [err |-> "ValueError", val |-> <<>>]
      ELSE [err |-> NoError, val |-> Listing(markup.anchors)]

_get_story_urls(cls, markup) ==
  IF cls = "MangakomaOnlDownloader"
    THEN MangakomaOnl_get_story_urls(markup)
    ELSE Mangakoma01Net_get_story_urls(markup)

\* every variant lists the page's sources in markup order; an element
\* without the attribute (or without an img) raises
_find_jpg_source(cls, markup) ==
  IF markup.bad
    THEN [err |-> IF cls = "Mangakoma01NetDownloader" THEN "KeyError" ELSE "TypeError",
          val |-> <<>>]
    ELSE [err |-> NoError, val |-> [i \in 1..markup.imgs |-> i]]

\* the skip taken from the front of the list: all_story_urls[skip:]
SelectUrls_from_front(all, skip) ==
  IF skip = 0 THEN reversed(all) ELSE reversed(SliceFrom(all, skip))

\* the reversal forgotten
SelectUrls_unreversed(all, skip) ==
  IF skip = 0 THEN all ELSE SliceTo(all, skip * (-1))

\* the stop computed as len - skip, which Python reads from the end once
\* it is negative: all_story_urls[:len(all_story_urls) - skip]
SelectUrls_by_length(all, skip) ==
  IF skip = 0 THEN reversed(all) ELSE reversed(SliceTo(all, Len(all) - skip))

\* download(): the chapters to process, in processing order
SelectUrls(all, skip) ==
  LET skip_file_num == skip * (-1)
  IN  IF skip_file_num = 0 THEN reversed(all)
      ELSE reversed(SliceTo(all, skip_file_num))

----------------------------------------------------------------------------
\* The image fetcher and the document assembler

None == 0

\* fetch_image: the file written for the link at position i, or None
fetch_image(links, status, i) ==
  IF status[i] # 200 THEN None ELSE links[i]

RECURSIVE download_loop(_, _, _, _)
download_loop(links, status, i, downloaded_img_paths) ==
  IF i > Len(links) THEN [raised |-> FALSE, paths |-> downloaded_img_paths]
  ELSE IF status[i] = 0 THEN [raised |-> TRUE, paths |-> downloaded_img_paths]
  ELSE LET img_file == fetch_image(links, status, i)
       IN  download_loop(links, status, i + 1,
             IF img_file # None THEN Append(downloaded_img_paths, img_file)
             ELSE downloaded_img_paths)

\* the status code not looked at: every link counts as downloaded
download_images_unchecked(links, status) == [raised |-> FALSE, paths |-> links]

download_images(links, status) == download_loop(links, status, 1, <<>>)

RECURSIVE open_loop(_, _, _)
open_loop(fs, valid, imgs) ==
  IF fs = <<>> THEN imgs
  ELSE open_loop(Tail(fs), valid,
         IF Head(fs) \in valid THEN Append(imgs, Head(fs)) ELSE imgs)

\* images_to_pdf: the list images after the loop over files
OpenImages(fs, valid) == open_loop(fs, valid, <<>>)

\* images_to_pdf: the pages images[0].save(..., append_images=images[1:]) writes
SavedPages(imgs) == <<imgs[1]>> \o SliceFrom(imgs, 1)

\* the name of a chapter's document: the URL's text after its last '/'
DocName(u) == u

----------------------------------------------------------------------------
\* The run

Prefixes ==
  {"https://mangakoma.org/", "https://mangakoma01.net/",
   "https://mangakoma.onl/manga/", "https://example.com/"}

\* the markup a render of the title's page may return
ListingMarkups ==
  {m \in [select : BOOLEAN, options : 0..MaxChapters, modal : BOOLEAN,
          anchors : 0..MaxChapters, imgs : {0}, bad : {FALSE}] :
     /\ (~m.select => m.options = 0)
     /\ (~m.modal => m.anchors = 0)}

\* the markup a render of a chapter's page may return
ChapterMarkups ==
  {m \in [select : BOOLEAN, options : {0}, modal : {FALSE}, anchors : {0},
          imgs : 0..MaxSrc, bad : BOOLEAN] :
     m.bad => m.imgs > 0}

\* the status codes of one download_images call: 200, another code (404),
\* 0 where requests.get raised, -1 for the links never requested after that
Responses(n) ==
  {[i \in 1..n |-> IF x = 0 \/ i < x THEN st[i] ELSE IF i = x THEN 0 ELSE -1] :
     st \in [1..n -> {200, 404}], x \in 0..n}

Init ==
  /\ pc = "main"
  /\ rpc = "none"
  /\ arg_url \in Prefixes
  /\ arg_skip \in 0..MaxSkip
  /\ chromedriver \in BOOLEAN
  /\ out_dir \in BOOLEAN
  /\ raw = "None"
  /\ sessions = 0
  /\ renders = 0
  /\ soup = NoMarkup
  /\ all_story_urls = <<>>
  /\ urls = <<>>
  /\ url = 0
  /\ processed = <<>>
  /\ sources = <<>>
  /\ jpgs_href = <<>>
  /\ tempdir = FALSE
  /\ files = {}
  /\ resp = <<>>
  /\ jpg_filepaths = <<>>
  /\ decodable = {}
  /\ images = <<>>
  /\ pdf_filename = Unbound
  /\ pdf = <<>>
  /\ docs = {}
  /\ err = NoError

\* main(): pick the downloader by the URL's prefix
Main ==
  /\ pc = "main"
  /\ IF Dispatch(arg_url) = "None"
       THEN /\ err' = "ValueError"
            /\ pc' = "aborted"
            /\ raw' = raw
       ELSE /\ raw' = Dispatch(arg_url)
            /\ pc' = "download"
            /\ err' = err
  /\ UNCHANGED <<rpc, args, out_dir, sessions, renders, soup, all_story_urls,
                 urls, url, processed, chapterLocals, docs>>

\* download(): make out_dir, then render the page of the title
Download ==
  /\ pc = "download"
  /\ out_dir' = TRUE
  /\ renders' = renders + 1
  /\ rpc' = "list"
  /\ pc' = "create_driver"
  /\ UNCHANGED <<args, raw, sessions, soup, all_story_urls, urls, url,
                 processed, chapterLocals, docs, err>>

\* _get_content: create_driver() and enter the with block
CreateDriver ==
  /\ pc = "create_driver"
  /\ IF ~chromedriver
       THEN /\ err' = "FileNotFoundError"
            /\ pc' = "aborted"
            /\ sessions' = sessions
       ELSE /\ sessions' = sessions + 1
            /\ pc' = "get"
            /\ err' = err
  /\ UNCHANGED <<rpc, args, out_dir, raw, renders, soup, all_story_urls, urls,
                 url, processed, chapterLocals, docs>>

\* _get_content: driver.get(url) and the sleep
DriverGet ==
  /\ pc = "get"
  /\ \E ok \in BOOLEAN :
       IF ok
         THEN /\ pc' = IF raw = "MangakomaOnlDownloader" THEN "wait" ELSE "page_source"
              /\ err' = err
         ELSE /\ pc' = "with_exit"
              /\ err' = "WebDriverException"
  /\ UNCHANGED <<rpc, args, out_dir, raw, sessions, renders, soup,
                 all_story_urls, urls, url, processed, chapterLocals, docs>>

\* MangakomaOnlDownloader._get_content: wait for select.select-chapter
WaitUntil ==
  /\ pc = "wait"
  /\ \E found \in BOOLEAN :
       IF found
         THEN /\ pc' = "click"
              /\ err' = err
         ELSE /\ pc' = "with_exit"
              /\ err' = "TimeoutException"
  /\ UNCHANGED <<rpc, args, out_dir, raw, sessions, renders, soup,
                 all_story_urls, urls, url, processed, chapterLocals, docs>>

\* MangakomaOnlDownloader._get_content: select_element.click()
Click ==
  /\ pc = "click"
  /\ \E ok \in BOOLEAN :
       IF ok
         THEN /\ pc' = "page_source"
              /\ err' = err
         ELSE /\ pc' = "with_exit"
              /\ err' = "ElementNotInteractableException"
  /\ UNCHANGED <<rpc, args, out_dir, raw, sessions, renders, soup,
                 all_story_urls, urls, url, processed, chapterLocals, docs>>

\* _get_content: read driver.page_source; the onl variant got past its wait,
\* so its page has the select
PageSource ==
  /\ pc = "page_source"
  /\ \E m \in (IF rpc = "list" THEN ListingMarkups ELSE ChapterMarkups) :
       /\ (raw = "MangakomaOnlDownloader" => m.select)
       /\ soup' = m
  /\ pc' = "with_exit"
  /\ UNCHANGED <<rpc, args, out_dir, raw, sessions, renders, all_story_urls,
                 urls, url, processed, chapterLocals, docs, err>>

\* driver.quit() called at the end of the block instead of a with statement:
\* an exception skips it
WithExit_on_return ==
  /\ pc = "with_exit"
  /\ sessions' = IF err = NoError THEN sessions - 1 ELSE sessions
  /\ pc' = IF err = NoError THEN rpc ELSE "aborted"
  /\ UNCHANGED <<rpc, args, out_dir, raw, renders, soup, all_story_urls, urls,
                 url, processed, chapterLocals, docs, err>>

\* _get_content: leaving the with block quits the driver, on return and on
\* an exception alike
WithExit ==
  /\ pc = "with_exit"
  /\ sessions' = sessions - 1
  /\ pc' = IF err = NoError THEN rpc ELSE "aborted"
  /\ UNCHANGED <<rpc, args, out_dir, raw, renders, soup, all_story_urls, urls,
                 url, processed, chapterLocals, docs, err>>

\* download(): all_story_urls = self._get_story_urls(soup)
ListStories ==
  /\ pc = "list"
  /\ LET r == _get_story_urls(raw, soup)
     IN  IF r.err # NoError
           THEN /\ err' = r.err
                /\ pc' = "aborted"
                /\ all_story_urls' = all_story_urls
           ELSE /\ all_story_urls' = r.val
                /\ pc' = "select"
                /\ err' = err
  /\ UNCHANGED <<rpc, args, out_dir, raw, sessions, renders, soup, urls, url,
                 processed, chapterLocals, docs>>

\* download(): urls = reversed(...); the listing's markup is not read again
SelectChapters ==
  /\ pc = "select"
  /\ urls' = SelectUrls(all_story_urls, arg_skip)
  /\ soup' = NoMarkup
  /\ pc' = "loop"
  /\ UNCHANGED <<rpc, args, out_dir, raw, sessions, renders, all_story_urls,
                 url, processed, chapterLocals, docs, err>>

\* download(): the for loop takes the next chapter and calls
\* _fetch_content_create_pdf, which renders the chapter's page
NextChapter ==
  /\ pc = "loop"
  /\ urls # <<>>
  /\ url' = Head(urls)
  /\ urls' = Tail(urls)
  /\ processed' = Append(processed, Head(urls))
  /\ renders' = renders + 1
  /\ rpc' = "parse"
  /\ pc' = "create_driver"
  /\ UNCHANGED <<args, out_dir, raw, sessions, soup, all_story_urls,
                 chapterLocals, docs, err>>

\* download(): the for loop is exhausted
LoopEnd ==
  /\ pc = "loop"
  /\ urls = <<>>
  /\ pc' = "done"
  /\ UNCHANGED <<rpc, args, out_dir, raw, sessions, renders, soup,
                 all_story_urls, urls, url, processed, chapterLocals, docs, err>>

\* _fetch_content_create_pdf: find the page's image sources and trim them
Parse ==
  /\ pc = "parse"
  /\ LET r == _find_jpg_source(raw, soup)
     IN  IF r.err # NoError
           THEN /\ err' = r.err
                /\ pc' = "aborted"
                /\ UNCHANGED <<sources, jpgs_href>>
           ELSE /\ sources' = r.val
                /\ jpgs_href' = _cut(raw, r.val)
                /\ pc' = "mkdtemp"
                /\ err' = err
  /\ UNCHANGED <<rpc, args, out_dir, raw, sessions, renders, soup,
                 all_story_urls, urls, url, processed, tempdir, files, resp,
                 jpg_filepaths, decodable, images, pdf_filename, pdf, docs>>

\* _fetch_content_create_pdf: tempdir = tempfile.mkdtemp()
Mkdtemp ==
  /\ pc = "mkdtemp"
  /\ tempdir' = TRUE
  /\ pc' = "download_images"
  /\ UNCHANGED <<rpc, args, out_dir, raw, sessions, renders, soup,
                 all_story_urls, urls, url, processed, sources, jpgs_href,
                 files, resp, jpg_filepaths, decodable, images, pdf_filename,
                 pdf, docs, err>>

\* _fetch_content_create_pdf: the try block up to the name of the document
DownloadImages ==
  /\ pc = "download_images"
  /\ \E status \in Responses(Len(jpgs_href)) :
       LET r == download_images(jpgs_href, status)
       IN  /\ resp' = status
           /\ files' = Range(r.paths)
           /\ IF r.raised
                THEN /\ err' = "RequestException"
                     /\ pc' = "finally"
                     /\ UNCHANGED <<jpg_filepaths, pdf_filename>>
                ELSE /\ jpg_filepaths' = r.paths
                     /\ IF Len(r.paths) < 1
                          THEN /\ err' = "ValueError"
                               /\ pc' = "finally"
                               /\ pdf_filename' = pdf_filename
                          ELSE /\ pdf_filename' = DocName(url)
                               /\ pc' = "images_to_pdf"
                               /\ err' = err
  /\ UNCHANGED <<rpc, args, out_dir, raw, sessions, renders, soup,
                 all_story_urls, urls, url, processed, sources, jpgs_href,
                 tempdir, decodable, images, pdf, docs>>

\* images_to_pdf: open the files, save the document, remove the files
ImagesToPdf ==
  /\ pc = "images_to_pdf"
  /\ \E valid \in SUBSET Range(jpg_filepaths), saved \in BOOLEAN :
       LET imgs == OpenImages(jpg_filepaths, valid)
       IN  /\ decodable' = valid
           /\ images' = imgs
           /\ IF imgs = <<>>
                THEN /\ saved
                     /\ err' = "IndexError"
                     /\ UNCHANGED <<pdf, docs, files>>
                ELSE IF ~saved
                  THEN /\ err' = "OSError"
                       /\ UNCHANGED <<pdf, docs, files>>
                  ELSE /\ pdf' = SavedPages(imgs)
                       /\ docs' = docs \cup {pdf_filename}
                       /\ files' = files \ Range(jpg_filepaths)
                       /\ err' = err
  /\ pc' = "finally"
  /\ UNCHANGED <<rpc, args, out_dir, raw, sessions, renders, soup,
                 all_story_urls, urls, url, processed, sources, jpgs_href,
                 tempdir, resp, jpg_filepaths, pdf_filename>>

\* a loop that catches a chapter's exception and goes on with the next one
Finally_continue ==
  /\ pc = "finally"
  /\ tempdir' = FALSE
  /\ files' = {}
  /\ pc' = "loop"
  /\ soup' = NoMarkup
  /\ sources' = <<>>
  /\ jpgs_href' = <<>>
  /\ resp' = <<>>
  /\ jpg_filepaths' = <<>>
  /\ decodable' = {}
  /\ images' = <<>>
  /\ pdf_filename' = Unbound
  /\ pdf' = <<>>
  /\ err' = NoError
  /\ UNCHANGED <<rpc, args, out_dir, raw, sessions, renders, all_story_urls,
                 urls, url, processed, docs>>

\* _fetch_content_create_pdf: the finally block.  print reads pdf_filename,
\* which raises UnboundLocalError when the try block never bound it, and
\* shutil.rmtree is then not reached.  Without an exception the call returns
\* and its locals are gone.
Finally ==
  /\ pc = "finally"
  /\ IF pdf_filename = Unbound
       THEN /\ err' = "UnboundLocalError"
            /\ pc' = "aborted"
            /\ UNCHANGED <<soup, chapterLocals>>
       ELSE IF err # NoError
         THEN /\ tempdir' = FALSE
              /\ files' = {}
              /\ pc' = "aborted"
              /\ UNCHANGED <<soup, sources, jpgs_href, resp, jpg_filepaths,
                             decodable, images, pdf_filename, pdf, err>>
         ELSE /\ tempdir' = FALSE
              /\ files' = {}
              /\ pc' = "loop"
              /\ soup' = NoMarkup
              /\ sources' = <<>>
              /\ jpgs_href' = <<>>
              /\ resp' = <<>>
              /\ jpg_filepaths' = <<>>
              /\ decodable' = {}
              /\ images' = <<>>
              /\ pdf_filename' = Unbound
              /\ pdf' = <<>>
              /\ err' = err
  /\ UNCHANGED <<rpc, args, out_dir, raw, sessions, renders, all_story_urls,
                 urls, url, processed, docs>>

Next ==
  \/ Main
  \/ Download
  \/ CreateDriver
  \/ DriverGet
  \/ WaitUntil
  \/ Click
  \/ PageSource
  \/ WithExit
  \/ ListStories
  \/ SelectChapters
  \/ NextChapter
  \/ LoopEnd
  \/ Parse
  \/ Mkdtemp
  \/ DownloadImages
  \/ ImagesToPdf
  \/ Finally

Spec == Init /\ [][Next]_vars

----------------------------------------------------------------------------
\* Properties

N == Len(all_story_urls)

\* download() has computed urls
Selected == pc \in {"loop", "done"} \/ rpc = "parse"

\* _fetch_content_create_pdf is past _cut and has not returned
InChapter == pc \in {"mkdtemp", "download_images", "images_to_pdf", "finally"}

\* the iterator urls as download() computed it
chosen == processed \o urls

\* C1 as stated: with 0 <= k < N the k most recent chapters (the first k
\* entries of the newest-first list) are dropped and the other N-k are
\* processed oldest to newest.
C1_DropsMostRecent ==
  (pc = "done" /\ arg_skip < N) =>
    processed = reversed(Slice(all_story_urls, arg_skip, N))

\* C1 amended: with 0 <= k < N the chapters download() selects are the first
\* N-k entries of the newest-first list, taken last to first; the last k
\* entries (the k oldest chapters) are the ones dropped, and a run that
\* completes has processed exactly the selected chapters in that order.
C1_DropsOldest ==
  (Selected /\ arg_skip < N) =>
    /\ Len(chosen) = N - arg_skip
    /\ \A j \in 1..(N - arg_skip) : chosen[j] = all_story_urls[N - arg_skip + 1 - j]
    /\ \A j \in (N - arg_skip + 1)..N : all_story_urls[j] \notin Range(chosen)
    /\ (pc = "done" => processed = chosen)

C1_Witness ==
  /\ pc = "done"
  /\ all_story_urls = <<5, 4, 3, 2, 1>>
  /\ arg_skip = 2
  /\ processed = <<3, 4, 5>>

\* C2: with 0 <= k < N a completed run has processed exactly N-k chapters,
\* chapter k+1 of the publication order first and then upwards, the k oldest
\* omitted; with k = 0 that is the exact reverse of the navigation list.
C2_StartsAtChapterKPlus1 ==
  (pc = "done" /\ arg_skip < N) =>
    /\ Len(processed) = N - arg_skip
    /\ \A j \in 1..Len(processed) : processed[j] = arg_skip + j
    /\ \A c \in 1..arg_skip : c \notin Range(processed)
    /\ (arg_skip = 0 => processed = reversed(all_story_urls))

C2_Witness ==
  /\ pc = "done"
  /\ arg_skip = 0
  /\ all_story_urls = <<5, 4, 3, 2, 1>>
  /\ processed = <<1, 2, 3, 4, 5>>
  /\ docs = {1, 2, 3, 4, 5}

\* C3: whenever the processing of a chapter has ended, by return or by an
\* exception, the scratch directory and the files in it are gone.
C3_ScratchRemoved ==
  pc \in {"loop", "done", "aborted"} => (~tempdir /\ files = {})

\* a fatal condition of the chapter in work: nothing was downloaded
\* (ValueError) or nothing decoded (IndexError)
FatalChapter == pc = "finally" /\ err \in {"ValueError", "IndexError"}

\* C4: a fatal condition in chapter i ends the run: the step after it aborts
\* without writing a document for i, the documents of the chapters before i
\* are all there, and an aborted run takes no further step (no later chapter
\* is rendered or downloaded).
C4_FatalHaltsRun ==
  [][ /\ FatalChapter =>
          /\ pc' = "aborted"
          /\ url \notin docs
          /\ docs = Range(processed) \ {url}
          /\ docs' = docs
          /\ processed' = processed
          /\ renders' = renders
      /\ pc # "aborted" ]_vars

C4_Witness ==
  /\ pc = "aborted"
  /\ err = "IndexError"
  /\ processed = <<1, 2>>
  /\ urls = <<3, 4>>
  /\ docs = {1}

\* the links whose fetch returned 200 and whose file decodes, in link order
KeptPages(links, status, valid) ==
  LET F[i \in 0..Len(links)] ==
        IF i = 0 THEN <<>>
        ELSE IF status[i] = 200 /\ links[i] \in valid
          THEN Append(F[i - 1], links[i])
          ELSE F[i - 1]
  IN  F[Len(links)]

\* C5: the pages of a written document are the trimmed sources whose fetch
\* returned success and whose file decoded, in the order of the sources; 7
\* sources under strip-both-ends with one failed fetch and no undecodable
\* file give 4 pages.
C5_PagesAreFetchedAndDecoded ==
  (pc = "finally" /\ err = NoError) =>
    /\ pdf = KeptPages(jpgs_href, resp, decodable)
    /\ pdf_filename \in docs
    /\ (/\ raw = "Mangakoma01NetDownloader"
        /\ Len(sources) = 7
        /\ Cardinality({i \in 1..Len(resp) : resp[i] # 200}) = 1
        /\ decodable = Range(jpg_filepaths)) => Len(pdf) = 4

C5_Witness ==
  /\ pc = "finally"
  /\ err = NoError
  /\ raw = "Mangakoma01NetDownloader"
  /\ Len(sources) = 7
  /\ resp = <<200, 200, 404, 200, 200>>
  /\ decodable = {2, 3, 5, 6}
  /\ pdf = <<2, 3, 5, 6>>

C7_CutIdempotent ==
  InChapter => _cut(raw, jpgs_href) = jpgs_href

\* C7 amended: applying _cut again leaves a trimmed sequence as it is
\* exactly when the variant is the no-op one or the trimmed sequence is
\* empty; otherwise strip-both-ends removes two more entries (one when only
\* one is left) and strip-leading one more.
C7_CutAgainRemovesMore ==
  InChapter =>
    LET L == Len(jpgs_href)
        d == IF raw = "Mangakoma01NetDownloader" THEN 2
             ELSE IF raw = "MangakomaOrgDownloader" THEN 1 ELSE 0
    IN  /\ (_cut(raw, jpgs_href) = jpgs_href) <=>
             (raw = "MangakomaOnlDownloader" \/ jpgs_href = <<>>)
        /\ Len(_cut(raw, jpgs_href)) = IF L >= d THEN L - d ELSE 0

C7_Witness ==
  /\ pc = "mkdtemp"
  /\ raw = "Mangakoma01NetDownloader"
  /\ sources = <<1, 2, 3, 4, 5>>
  /\ jpgs_href = <<2, 3, 4>>
  /\ _cut(raw, jpgs_href) = <<3>>

\* C8: the session a render opens is closed before the render returns or
\* raises: at most one session is open, and none outside a render (none
\* while images are downloaded or a document is assembled).
C8_SessionScoped ==
  /\ sessions <= 1
  /\ (pc \notin {"get", "wait", "click", "page_source", "with_exit"} =>
        sessions = 0)

C8_Witness ==
  /\ pc = "aborted"
  /\ err = "TimeoutException"
  /\ renders = 3
  /\ sessions = 0

\* C9: the mangakoma.onl lookup returns the option values when there are two
\* or more options, whatever the modal holds; with at most one option it
\* returns the modal's anchors; with at most one option and no modal it
\* raises ValueError and returns no list.
C9_TwoPathLookup ==
  [][ (pc = "list" /\ raw = "MangakomaOnlDownloader") =>
        /\ (soup.options >= 2 =>
              /\ pc' = "select"
              /\ all_story_urls' = Listing(soup.options))
        /\ (soup.options <= 1 /\ soup.modal =>
              /\ pc' = "select"
              /\ all_story_urls' = Listing(soup.anchors))
        /\ (soup.options <= 1 /\ ~soup.modal =>
              /\ pc' = "aborted"
              /\ err' = "ValueError"
              /\ all_story_urls' = <<>>) ]_vars

C9_Witness ==
  /\ pc = "select"
  /\ raw = "MangakomaOnlDownloader"
  /\ soup.options = 1
  /\ soup.modal
  /\ soup.anchors = 3
  /\ all_story_urls = <<3, 2, 1>>

\* C10: with k >= N >= 1 nothing is processed: after the listing render no
\* page is rendered, no scratch directory is made, no document is written,
\* and the run goes to its end without an exception.
C10_SkipAllProcessesNothing ==
  (N >= 1 /\ arg_skip >= N) =>
    /\ pc \in {"select", "loop", "done"}
    /\ (pc # "select" => urls = <<>>)
    /\ processed = <<>>
    /\ renders = 1
    /\ docs = {}
    /\ ~tempdir
    /\ files = {}
    /\ err = NoError

C10_Witness ==
  /\ pc = "done"
  /\ N = 2
  /\ arg_skip = 3
  /\ renders = 1
  /\ docs = {}

====
